---- MODULE Spec2Model ----
(***************************************************************************)
(* Temporal orchestration of the ACE presentation: section navigation      *)
(* (ACEPresentation), flow-step playback (PresentationController), the     *)
(* demo driver (DemoController), the dialog stack (ModalSystem) and the    *)
(* browser timer service they all register callbacks with.                 *)
(*                                                                         *)
(* Every handler is one action.  A handler is computed on a record w (the  *)
(* "world": all program fields plus the timer queue) by operators that     *)
(* follow the call structure of the source; Commit(w) writes the result    *)
(* back to the variables.  Times are milliseconds, as in the source.       *)
(***************************************************************************)
EXTENDS Integers, Sequences, FiniteSets, TLC

VARIABLES
  aceCurrentSection,   \* ACEPresentation.currentSection
  pcCurrentSection,    \* PresentationController.currentSection
  pcCurrentStep,       \* PresentationController.currentStep (0-based)
  presentationState,   \* PresentationController.presentationState {isPlaying, isPaused,
                       \*   hasStartTime (startTime is not null), currentTime}
  sinceStart,          \* Date.now() - presentationState.startTime, 0 while startTime is null
  autoAdvance,         \* PresentationController.autoAdvance
  demoIsRunning,       \* DemoController.isRunning
  demoIsPaused,        \* DemoController.isPaused
  demoCurrentStep,     \* DemoController.currentStep (0-based)
  stepTimeout,         \* DemoController.stepTimeout is non-null
  modalStack,          \* ModalSystem.modalStack
  overlayActive,       \* ModalSystem.overlay has class 'active'
  sceneSection,        \* threeScene.currentSection
  sceneImpl,           \* which ThreeSceneController the page loaded: "simple" or "animated"
  isAnimating,         \* threeScene.isAnimating (animated scene only)
  demoMode,            \* acePresentation.demoMode
  animator,            \* AnimationController {animationQueue, isAnimating, activeAnimations};
                       \*   history: queued (entries queued so far), started (ids begun, in order)
  fault,               \* the one defect of the page or the configuration, if any
  timers,              \* pending setTimeout callbacks, in registration order
  log,                 \* history: what the last handler did, in order
  lastCall,            \* history: the last handler that ran
  calls,               \* history: number of handlers invoked from outside so far
  fired,               \* history: number of timer callbacks run so far, up to MaxFired
  demoEverStarted      \* history: DemoController.start() has been called

vars == <<aceCurrentSection, pcCurrentSection, pcCurrentStep, presentationState,
          sinceStart, autoAdvance, demoIsRunning, demoIsPaused, demoCurrentStep, stepTimeout,
          modalStack, overlayActive, sceneSection, sceneImpl, isAnimating, demoMode, animator,
          fault, timers, log, lastCall,
          calls, fired, demoEverStarted>>

----------------------------------------------------------------------------
(* Bounds of the model *)

\* number of handlers invoked from outside (clicks, keys, page events)
MaxCalls == 3
\* number of timer callbacks that run while outside handlers may still interleave
MaxFired == 4

----------------------------------------------------------------------------
(* Static configuration *)

sectionOrder == <<"chaos", "valet", "manager", "executive", "closing">>

Sections == {sectionOrder[i] : i \in DOMAIN sectionOrder}

Act(type, delay) == [type |-> type, delay |-> delay]

\* delay = 0 stands for an action without a delay property (run synchronously)
flowSteps ==
  << [section |-> "chaos", duration |-> 60000, actions |->
        << Act("showSection", 0), Act("highlight3DPapers", 2000),
           Act("showProblemCount", 4000), Act("emphasizeCosts", 6000) >>],
     [section |-> "valet", duration |-> 90000, actions |->
        << Act("showSection", 0), Act("showFirefighter", 2000),
           Act("demonstrateProblemSolving", 4000), Act("showTrainingSolutions", 6000),
           Act("animatePaperToBinder", 8000) >>],
     [section |-> "manager", duration |-> 90000, actions |->
        << Act("showSection", 0), Act("showWatchtower", 2000),
           Act("openBinder", 4000), Act("showProcesses", 6000),
           Act("demonstrateOversight", 8000) >>],
     [section |-> "executive", duration |-> 120000, actions |->
        << Act("showSection", 0), Act("showPlane", 2000),
           Act("displayKPIs", 4000), Act("showROICalculator", 6000),
           Act("demonstrateROI", 8000), Act("showPredictiveAnalytics", 10000) >>],
     [section |-> "closing", duration |-> 60000, actions |->
        << Act("showSection", 0), Act("showTransformation", 2000),
           Act("highlightPilotProgram", 4000), Act("showNextSteps", 6000),
           Act("emphasizeCTA", 8000) >> ] >>

\* flowSteps[k] of the source, k counted from 0
FlowStep(k) == flowSteps[k + 1]

\* post-delay of each demo step, step 0 first
demoDurations == <<4000, 3000, 4000, 3000, 3000, 4000, 3000, 4000, 2000, 0>>

\* demoSequence.length
DemoLength == Len(demoDurations)

\* delay of the deferred navigation in the two 'Close modal and transition' steps
DemoNavDelay == 500

\* ThreeSceneController.animationDuration of the animated scene
animationDuration == 2000

\* the case labels of the switch in executeAction
RegisteredTypes ==
  {"showSection", "highlight3DPapers", "showProblemCount", "emphasizeCosts",
   "showFirefighter", "demonstrateProblemSolving", "showTrainingSolutions",
   "animatePaperToBinder", "showWatchtower", "openBinder", "showProcesses",
   "demonstrateOversight", "showPlane", "displayKPIs", "showROICalculator",
   "demonstrateROI", "showPredictiveAnalytics", "showTransformation",
   "highlightPilotProgram", "showNextSteps", "emphasizeCTA"}

\* Defects tried, one per behaviour: the effect of action idx of flowSteps[step]
\* throws ("throws"), that action carries a name outside the registry
\* ("unknown"), or the action of demo step `step` throws ("demoThrows").  An
\* effect that throws does so before it has changed anything.
NoFault == [kind |-> "none", step |-> 0, idx |-> 0]

Faults ==
  { [kind |-> "throws", step |-> 1, idx |-> 1],
    [kind |-> "throws", step |-> 1, idx |-> 3],
    [kind |-> "unknown", step |-> 1, idx |-> 1],
    [kind |-> "unknown", step |-> 1, idx |-> 3],
    [kind |-> "demoThrows", step |-> 1, idx |-> 0] }

\* arguments tried for skipToStep: below the script, a step that defers a
\* navigation, the last step, and past the end
SkipTargets == {-1, 2, DemoLength - 1, DemoLength}

----------------------------------------------------------------------------
(* The world record and the timer service *)

World ==
  [ aceSection |-> aceCurrentSection, pcSection |-> pcCurrentSection,
    pcStep |-> pcCurrentStep, state |-> presentationState, sinceStart |-> sinceStart,
    autoAdvance |-> autoAdvance, demoRunning |-> demoIsRunning,
    demoPaused |-> demoIsPaused, demoStep |-> demoCurrentStep,
    stepTimeout |-> stepTimeout, modalStack |-> modalStack,
    overlayActive |-> overlayActive, sceneSection |-> sceneSection,
    sceneImpl |-> sceneImpl, isAnimating |-> isAnimating, demoMode |-> demoMode,
    animator |-> animator,
    timers |-> timers, log |-> <<>> ]

Timer(kind, rem, step, idx, target) ==
  [kind |-> kind, rem |-> rem, step |-> step, idx |-> idx, target |-> target,
   stale |-> FALSE, owned |-> FALSE]

Event(ev, name, sec, prev, idx, stale) ==
  [ev |-> ev, name |-> name, sec |-> sec, prev |-> prev, idx |-> idx, stale |-> stale]

Logged(w, e) == [w EXCEPT !.log = Append(@, e)]

\* the handler's result, computed once, becomes the next state
Commit(w) ==
  \E v \in {w} :
    /\ aceCurrentSection' = v.aceSection
    /\ pcCurrentSection' = v.pcSection
    /\ pcCurrentStep' = v.pcStep
    /\ presentationState' = v.state
    /\ sinceStart' = v.sinceStart
    /\ autoAdvance' = v.autoAdvance
    /\ demoIsRunning' = v.demoRunning
    /\ demoIsPaused' = v.demoPaused
    /\ demoCurrentStep' = v.demoStep
    /\ stepTimeout' = v.stepTimeout
    /\ modalStack' = v.modalStack
    /\ overlayActive' = v.overlayActive
    /\ sceneSection' = v.sceneSection
    /\ sceneImpl' = v.sceneImpl
    /\ isAnimating' = v.isAnimating
    /\ demoMode' = v.demoMode
    /\ animator' = v.animator
    /\ fault' = fault
    /\ timers' = v.timers
    /\ log' = v.log

SetTimeout(w, t) == [w EXCEPT !.timers = Append(@, t)]

\* history only: the flow timers pending when a section is left belong to
\* abandoned runs from then on
MarkAbandoned(ts) ==
  [i \in DOMAIN ts |->
     IF ts[i].kind \in {"flowAction", "autoAdvance"}
     THEN [ts[i] EXCEPT !.stale = TRUE] ELSE ts[i]]

----------------------------------------------------------------------------
(* ModalSystem *)

\* showProblemModal / showKPIModal end in showModal: the overlay is shown and
\* the dialog is pushed on the stack
ShowModal(w, type) ==
  [w EXCEPT !.overlayActive = TRUE, !.modalStack = Append(@, type)]

\* hides the overlay and pops one entry (Array.pop on an empty stack is a no-op)
HideModal(w) ==
  [w EXCEPT !.overlayActive = FALSE,
            !.modalStack = IF @ = <<>> THEN @ ELSE SubSeq(@, 1, Len(@) - 1)]

RECURSIVE CloseAll(_)
CloseAll(w) == IF Len(w.modalStack) > 0 THEN CloseAll(HideModal(w)) ELSE w

----------------------------------------------------------------------------
(* threeScene *)

\* the simple scene
TransitionToSection(w, sectionId) ==
  Logged([w EXCEPT !.sceneSection = sectionId],
         Event("scene", "transitionToSection", sectionId, "none", 0, FALSE))

\* the animated scene: a request for the section it already shows, or one
\* made while isAnimating, is dropped; every transitionTo<Section> ends by
\* registering the timer that clears isAnimating, and the switch has no
\* default branch
AnimatedTransitionToSection(w, sectionId) ==
  LET w1 == Logged(w, Event("scene", "transitionToSection", sectionId, "none", 0, FALSE))
  IN  IF w1.sceneSection = sectionId \/ w1.isAnimating THEN w1
      ELSE IF sectionId \in Sections
      THEN SetTimeout([w1 EXCEPT !.isAnimating = TRUE, !.sceneSection = sectionId],
                      Timer("sceneUnlock", animationDuration, 0, 0, sectionId))
      ELSE [w1 EXCEPT !.isAnimating = TRUE, !.sceneSection = sectionId]

\* this.threeScene.transitionToSection(sectionId) in navigateToSection
SceneTransitionToSection(w, sectionId) ==
  IF sceneImpl = "animated"
  THEN AnimatedTransitionToSection(w, sectionId)
  ELSE TransitionToSection(w, sectionId)

----------------------------------------------------------------------------
(* PresentationController flow playback and ACEPresentation navigation.     *)
(* navigateToSection dispatches sectionChanged synchronously; its listeners *)
(* call back into navigateToSection, hence the recursion.                   *)

RECURSIVE NavigateToSection(_, _)

\* PresentationController.showSection
PCShowSection(w, sectionId) == NavigateToSection(w, sectionId)

\* action.type of action i of flowSteps[k]
ActionType(k, i) ==
  IF fault = [kind |-> "unknown", step |-> k, idx |-> i]
  THEN "unregisteredAction"
  ELSE FlowStep(k).actions[i].type

\* the effect of action i of flowSteps[k] throws
EffectThrows(k, i) == fault = [kind |-> "throws", step |-> k, idx |-> i]

\* an immediate action of flowSteps[k] throws: the exception leaves forEach,
\* executeFlowStep and its caller.  No try/catch encloses executeAction on
\* any path, so the exception is always reported by the browser as uncaught.
RunThrows(k) ==
  \E i \in DOMAIN FlowStep(k).actions :
    EffectThrows(k, i) /\ FlowStep(k).actions[i].delay = 0

\* console.error of the browser for an exception nothing caught
Uncaught(w) == Logged(w, Event("uncaught", "exception", "none", "none", 0, FALSE))

\* executeAction whose default branch throws instead of warning
ExecuteActionUnknownThrows(w, k, i, stale) ==
  LET type == ActionType(k, i)
      w1 == Logged(w, Event("flowAction", type, FlowStep(k).section, "none", i, stale))
  IN  IF type \notin RegisteredTypes
      THEN Uncaught(Logged(w, Event("warn", type, FlowStep(k).section, "none", i, stale)))
      ELSE IF EffectThrows(k, i)
      THEN Uncaught(w1)
      ELSE IF type = "showSection"
      THEN PCShowSection(w1, FlowStep(k).section)
      ELSE w1

\* PresentationController.executeAction on action i of flowSteps[k]: the
\* effects other than showSection touch only the page (classes, text,
\* cosmetic events)
ExecuteAction(w, k, i, stale) ==
  LET type == ActionType(k, i)
      w1 == Logged(w, Event("flowAction", type, FlowStep(k).section, "none", i, stale))
  IN  IF type \notin RegisteredTypes
      THEN Logged(w, Event("warn", type, FlowStep(k).section, "none", i, stale))
      ELSE IF EffectThrows(k, i)
      THEN Uncaught(w1)
      ELSE IF type = "showSection"
      THEN PCShowSection(w1, FlowStep(k).section)
      ELSE w1

\* forEach that ignores action.delay and executes every action at once
RECURSIVE RunActionsIgnoresDelay(_, _, _)
RunActionsIgnoresDelay(w, k, i) ==
  IF i > Len(FlowStep(k).actions) THEN w
  ELSE RunActionsIgnoresDelay(ExecuteAction(w, k, i, FALSE), k, i + 1)

\* an immediate action of flowSteps[k] before position i has thrown
ThrownBefore(k, i) ==
  \E j \in 1..(i - 1) :
    EffectThrows(k, j) /\ FlowStep(k).actions[j].delay = 0

\* step.actions.forEach from position i on
RECURSIVE RunActions(_, _, _)
RunActions(w, k, i) ==
  IF i > Len(FlowStep(k).actions) \/ ThrownBefore(k, i) THEN w
  ELSE RunActions(IF FlowStep(k).actions[i].delay > 0
                  THEN SetTimeout(w, Timer("flowAction", FlowStep(k).actions[i].delay, k, i, "none"))
                  ELSE ExecuteAction(w, k, i, FALSE),
                  k, i + 1)

\* an auto-advance that waits the first step's duration whatever the step
ScheduleAutoAdvanceFirstDuration(w, k) ==
  IF ~RunThrows(k) /\ w.autoAdvance
  THEN SetTimeout(w, Timer("autoAdvance", FlowStep(0).duration, k, 0, "none"))
  ELSE w

\* if (this.autoAdvance) setTimeout(() => this.nextStep(), step.duration);
\* not reached when an immediate action has thrown
ScheduleAutoAdvance(w, k) ==
  IF ~RunThrows(k) /\ w.autoAdvance
  THEN SetTimeout(w, Timer("autoAdvance", FlowStep(k).duration, k, 0, "none"))
  ELSE w

\* PresentationController.executeFlowStep
ExecuteFlowStep(w, k) ==
  ScheduleAutoAdvance(
    RunActions(Logged(w, Event("run", "executeFlowStep", FlowStep(k).section, "none", k, FALSE)), k, 1),
    k)

\* flowSteps.findIndex(step => step.section === sectionId), -1 when absent
FindIndex(sectionId) ==
  IF \E k \in 0..(Len(flowSteps) - 1) : FlowStep(k).section = sectionId
  THEN CHOOSE k \in 0..(Len(flowSteps) - 1) :
         /\ FlowStep(k).section = sectionId
         /\ \A j \in 0..(k - 1) : FlowStep(j).section # sectionId
  ELSE -1

\* PresentationController.updatePresentationState: the elapsed time is read
\* off the clock; the progress bar and the time display are cosmetic
UpdatePresentationState(w) ==
  [w EXCEPT !.state.currentTime = IF w.state.hasStartTime THEN w.sinceStart ELSE 0]

\* handleSectionChange that starts the run but forgets to store the index
PCHandleSectionChangeKeepsStep(w, sectionId) ==
  LET w1 == [w EXCEPT !.pcSection = sectionId]
      stepIndex == FindIndex(sectionId)
  IN  UpdatePresentationState(IF stepIndex # -1 THEN ExecuteFlowStep(w1, stepIndex) ELSE w1)

\* this.updatePresentationState() at the end of handleSectionChange, not
\* reached when executeFlowStep has thrown
UpdateAfterRun(w, stepIndex) ==
  IF stepIndex # -1 /\ RunThrows(stepIndex) THEN w ELSE UpdatePresentationState(w)

\* PresentationController.handleSectionChange
PCHandleSectionChange(w, sectionId) ==
  LET w1 == [w EXCEPT !.pcSection = sectionId]
      stepIndex == FindIndex(sectionId)
  IN  UpdateAfterRun(
        IF stepIndex # -1
        THEN ExecuteFlowStep([w1 EXCEPT !.pcStep = stepIndex], stepIndex)
        ELSE w1,
        stepIndex)

\* ACEPresentation.handleSectionChange
ACEHandleSectionChange(w, sectionId) == NavigateToSection(w, sectionId)

\* a dispatch that reaches the PresentationController listener twice
DispatchSectionChangedTwice(w, sectionId, previousSection) ==
  LET w1 == Logged(w, Event("signal", "sectionChanged", sectionId, previousSection, 0, FALSE))
  IN  ACEHandleSectionChange(PCHandleSectionChange(PCHandleSectionChange(w1, sectionId), sectionId), sectionId)

\* window.dispatchEvent(sectionChanged): the listeners in registration order.
\* UIController and AnimationController only restyle the page; the
\* PresentationController registers before ACEPresentation does.
DispatchSectionChanged(w, sectionId, previousSection) ==
  LET w1 == Logged(w, Event("signal", "sectionChanged", sectionId, previousSection, 0, FALSE))
      w2 == PCHandleSectionChange(w1, sectionId)
  IN  ACEHandleSectionChange(w2, sectionId)

\* navigateToSection that tests for the current section only after it has
\* called the scene
NavigateToSectionLateGuard(w, sectionId) ==
  IF w.aceSection = sectionId THEN SceneTransitionToSection(w, sectionId)
  ELSE LET w1 == [w EXCEPT !.aceSection = sectionId, !.timers = MarkAbandoned(@)]
           w2 == SceneTransitionToSection(w1, sectionId)
       IN  DispatchSectionChanged(w2, sectionId, w2.aceSection)

\* ACEPresentation.navigateToSection
NavigateToSection(w, sectionId) ==
  IF w.aceSection = sectionId THEN w
  ELSE LET w1 == [w EXCEPT !.aceSection = sectionId, !.timers = MarkAbandoned(@)]
           w2 == SceneTransitionToSection(w1, sectionId)
       IN  DispatchSectionChanged(w2, sectionId, w2.aceSection)

IndexOf(sectionId) == CHOOSE i \in 0..(Len(sectionOrder) - 1) : sectionOrder[i + 1] = sectionId

\* nextSection that stops at the last section instead of wrapping
NextSectionNoWrap(w) ==
  LET currentIndex == IndexOf(w.aceSection)
      nextIndex == IF currentIndex + 1 < Len(sectionOrder) THEN currentIndex + 1 ELSE currentIndex
  IN  NavigateToSection(w, sectionOrder[nextIndex + 1])

\* ACEPresentation.nextSection
NextSection(w) ==
  LET nextIndex == (IndexOf(w.aceSection) + 1) % Len(sectionOrder)
  IN  NavigateToSection(w, sectionOrder[nextIndex + 1])

\* ACEPresentation.previousSection
PreviousSection(w) ==
  LET prevIndex == (IndexOf(w.aceSection) - 1 + Len(sectionOrder)) % Len(sectionOrder)
  IN  NavigateToSection(w, sectionOrder[prevIndex + 1])

\* nextStep that wraps from the last step to the first
PCNextStepWraps(w) ==
  LET nextIndex == (w.pcStep + 1) % Len(flowSteps)
  IN  PCShowSection([w EXCEPT !.pcStep = nextIndex], FlowStep(nextIndex).section)

\* PresentationController.nextStep
PCNextStep(w) ==
  IF w.pcStep < Len(flowSteps) - 1
  THEN PCShowSection([w EXCEPT !.pcStep = @ + 1], FlowStep(w.pcStep + 1).section)
  ELSE w

\* previousStep that wraps from the first step to the last
PCPreviousStepWraps(w) ==
  LET prevIndex == (w.pcStep - 1 + Len(flowSteps)) % Len(flowSteps)
  IN  PCShowSection([w EXCEPT !.pcStep = prevIndex], FlowStep(prevIndex).section)

\* PresentationController.previousStep
PCPreviousStep(w) ==
  IF w.pcStep > 0
  THEN PCShowSection([w EXCEPT !.pcStep = @ - 1], FlowStep(w.pcStep - 1).section)
  ELSE w

\* PresentationController.gotoStep
PCGotoStep(w, stepIndex) ==
  IF stepIndex >= 0 /\ stepIndex < Len(flowSteps)
  THEN PCShowSection([w EXCEPT !.pcStep = stepIndex], FlowStep(stepIndex).section)
  ELSE w

\* PresentationController.play; startTime = Date.now() - currentTime makes the
\* clock read currentTime
PCPlay(w) ==
  IF ~w.state.isPlaying
  THEN ExecuteFlowStep([w EXCEPT !.state.isPlaying = TRUE, !.state.isPaused = FALSE,
                                 !.state.hasStartTime = TRUE,
                                 !.sinceStart = w.state.currentTime,
                                 !.autoAdvance = TRUE], w.pcStep)
  ELSE w

\* pause that pauses the demo driver as well
PCPauseAlsoPausesDemo(w) ==
  IF w.state.isPlaying
  THEN [w EXCEPT !.state.isPaused = TRUE, !.autoAdvance = FALSE, !.demoPaused = TRUE]
  ELSE w

\* PresentationController.pause
PCPause(w) ==
  IF w.state.isPlaying
  THEN [w EXCEPT !.state.isPaused = TRUE, !.autoAdvance = FALSE]
  ELSE w

\* stop that also rewinds to the first step
PCStopRewinds(w) ==
  [w EXCEPT !.state.isPlaying = FALSE, !.state.isPaused = FALSE,
            !.state.currentTime = 0, !.autoAdvance = FALSE, !.pcStep = 0]

\* PresentationController.stop
PCStop(w) ==
  [w EXCEPT !.state.isPlaying = FALSE, !.state.isPaused = FALSE,
            !.state.currentTime = 0, !.autoAdvance = FALSE]

\* reset that navigates back without stopping playback first
PCResetKeepsPlaying(w) ==
  PCShowSection([w EXCEPT !.pcStep = 0], FlowStep(0).section)

\* PresentationController.reset
PCReset(w) ==
  PCShowSection([PCStop(w) EXCEPT !.pcStep = 0], FlowStep(0).section)

----------------------------------------------------------------------------
(* DemoController *)

\* clearTimeout(this.stepTimeout): the handle names the timer marked owned
ClearStepTimeout(w) ==
  IF w.stepTimeout
  THEN [w EXCEPT !.timers = SelectSeq(@, LAMBDA t : ~t.owned), !.stepTimeout = FALSE]
  ELSE w

\* DemoController.resetDemoEffects (the launch button restyling is cosmetic)
ResetDemoEffects(w) == CloseAll(w)

\* DemoController.stop
DemoStop(w) ==
  ResetDemoEffects(ClearStepTimeout([w EXCEPT !.demoRunning = FALSE, !.demoPaused = FALSE]))

\* DemoController.reset
DemoReset(w) ==
  NavigateToSection(ResetDemoEffects([w EXCEPT !.demoStep = 0]), "chaos")

\* setTimeout(() => navigateToSection(target), 500) inside a step action
DeferNavigation(w, target) ==
  SetTimeout(w, Timer("demoNav", DemoNavDelay, 0, 0, target))

\* demoSequence[k].action()
DemoAction(w, k) ==
  LET w1 == Logged(w, Event("demoAction", "action", "none", "none", k, FALSE))
  IN  CASE k = 0 -> NavigateToSection(w1, "chaos")
        [] k = 1 -> ShowModal(w1, "problem")
        [] k = 2 -> DeferNavigation(HideModal(w1), "valet")
        [] k = 3 -> NavigateToSection(w1, "manager")
        [] k = 4 -> w1
        [] k = 5 -> NavigateToSection(w1, "executive")
        [] k = 6 -> ShowModal(w1, "kpi")
        [] k = 7 -> DeferNavigation(HideModal(w1), "closing")
        [] k = 8 -> w1
        [] k = 9 -> DemoReset(w1)

\* this.stepTimeout = setTimeout(() => this.nextStep(), duration): a handle
\* that was still pending is overwritten, not cleared
ScheduleNextStep(w, duration) ==
  LET disowned == [i \in DOMAIN w.timers |-> [w.timers[i] EXCEPT !.owned = FALSE]]
      t == [Timer("demoStep", duration, 0, 0, "none") EXCEPT !.owned = TRUE]
  IN  [w EXCEPT !.timers = Append(disowned, t), !.stepTimeout = TRUE]

\* try { step.action() } catch (error) { console.error(...) }
TryDemoAction(w, k) ==
  IF fault = [kind |-> "demoThrows", step |-> k, idx |-> 0]
  THEN Logged(w, Event("demoError", "caught", "none", "none", k, FALSE))
  ELSE DemoAction(w, k)

\* executeStep without the try/catch around the action
ExecuteStepNoCatch(w) ==
  IF ~w.demoRunning \/ w.demoPaused THEN w
  ELSE IF w.demoStep >= DemoLength THEN DemoStop(w)
  ELSE IF fault = [kind |-> "demoThrows", step |-> w.demoStep, idx |-> 0]
  THEN Uncaught(Logged(w, Event("demoError", "thrown", "none", "none", w.demoStep, FALSE)))
  ELSE ScheduleNextStep(DemoAction(w, w.demoStep), demoDurations[w.demoStep + 1])

\* DemoController.executeStep
ExecuteStep(w) ==
  IF ~w.demoRunning \/ w.demoPaused THEN w
  ELSE IF w.demoStep >= DemoLength THEN DemoStop(w)
  ELSE ScheduleNextStep(TryDemoAction(w, w.demoStep), demoDurations[w.demoStep + 1])

\* DemoController.nextStep
DemoNextStep(w) ==
  IF ~w.demoRunning THEN w
  ELSE LET w1 == [w EXCEPT !.demoStep = @ + 1]
       IN  IF w1.demoStep >= DemoLength THEN DemoStop(w1) ELSE ExecuteStep(w1)

\* DemoController.start
DemoStart(w) ==
  LET w1 == IF w.demoRunning THEN DemoStop(w) ELSE w
  IN  ExecuteStep([w1 EXCEPT !.demoRunning = TRUE, !.demoPaused = FALSE, !.demoStep = 0])

\* pause that works as a toggle: a second call takes the pause back
DemoPauseToggles(w) ==
  IF ~w.demoRunning THEN w
  ELSE IF w.demoPaused THEN [w EXCEPT !.demoPaused = FALSE]
  ELSE ClearStepTimeout([w EXCEPT !.demoPaused = TRUE])

\* pause that marks the driver paused but leaves the step timer pending
DemoPauseKeepsTimer(w) ==
  IF ~w.demoRunning THEN w
  ELSE [w EXCEPT !.demoPaused = TRUE]

\* DemoController.pause
DemoPause(w) ==
  IF ~w.demoRunning THEN w
  ELSE ClearStepTimeout([w EXCEPT !.demoPaused = TRUE])

\* resume that does not test isPaused
DemoResumeUnguarded(w) ==
  IF ~w.demoRunning THEN w
  ELSE ExecuteStep([w EXCEPT !.demoPaused = FALSE])

\* resume that credits the time before the pause: the next step is due at once
DemoResumeNoDelay(w) ==
  IF ~w.demoRunning \/ ~w.demoPaused THEN w
  ELSE ScheduleNextStep(DemoAction([w EXCEPT !.demoPaused = FALSE], w.demoStep), 0)

\* DemoController.resume
DemoResume(w) ==
  IF ~w.demoRunning \/ ~w.demoPaused THEN w
  ELSE ExecuteStep([w EXCEPT !.demoPaused = FALSE])

\* skipToStep that forgets clearTimeout(this.stepTimeout)
DemoSkipToStepKeepsTimer(w, stepIndex) ==
  IF ~w.demoRunning \/ stepIndex < 0 \/ stepIndex >= DemoLength THEN w
  ELSE ExecuteStep([w EXCEPT !.demoStep = stepIndex])

\* DemoController.skipToStep
DemoSkipToStep(w, stepIndex) ==
  IF ~w.demoRunning \/ stepIndex < 0 \/ stepIndex >= DemoLength THEN w
  ELSE ExecuteStep([ClearStepTimeout(w) EXCEPT !.demoStep = stepIndex])

\* ACEPresentation.handleVisibilityChange
HandleVisibilityChange(w, hidden) ==
  IF hidden THEN DemoPause(w) ELSE DemoResume(w)

\* AnimationController.presets, the presets that never end, and the animation
\* types a caller passes: two finite presets, the infinite one, and a name that
\* is no preset
Presets == {"paperFly", "fadeIn", "slideIn", "pulse", "bounce"}
InfinitePresets == {"pulse"}
AnimationTypes == {"fadeIn", "slideIn", "pulse", "spin"}

\* AnimationController.animateElement for the queue entry e (the element is
\* present; the entry's number stands for its animationId)
AnimateElement(w, e) ==
  IF e.animationType \notin Presets THEN w
  ELSE [w EXCEPT !.animator.activeAnimations = @ \cup {e},
                 !.animator.started = Append(@, e.id)]

\* AnimationController.processAnimationQueue
ProcessAnimationQueue(w) ==
  IF w.animator.animationQueue = <<>>
  THEN [w EXCEPT !.animator.isAnimating = FALSE]
  ELSE AnimateElement([w EXCEPT !.animator.isAnimating = TRUE,
                                !.animator.animationQueue = Tail(@)],
                      Head(w.animator.animationQueue))

\* AnimationController.queueAnimation
QueueAnimation(w, animationType) ==
  LET e == [id |-> w.animator.queued + 1, animationType |-> animationType]
      w1 == [w EXCEPT !.animator.animationQueue = Append(@, e),
                      !.animator.queued = @ + 1]
  IN  IF ~w.animator.isAnimating THEN ProcessAnimationQueue(w1) ELSE w1

RemoveActive(w, e) == [w EXCEPT !.animator.activeAnimations = @ \ {e}]

\* AnimationController.completeAnimation: the callback of a queued entry is
\* processAnimationQueue; then the entry is deleted and processAnimationQueue
\* is called again
CompleteAnimation(w, e) ==
  IF e \notin w.animator.activeAnimations THEN w
  ELSE ProcessAnimationQueue(RemoveActive(ProcessAnimationQueue(w), e))

\* ACEPresentation.toggleDemoMode (the button text is cosmetic)
ToggleDemoMode(w) ==
  IF ~w.demoMode
  THEN DemoStart([w EXCEPT !.demoMode = TRUE])
  ELSE DemoStop([w EXCEPT !.demoMode = FALSE])

----------------------------------------------------------------------------
(* The timer service *)

\* the callback of timer t
Callback(w, t) ==
  CASE t.kind = "flowAction" -> ExecuteAction(w, t.step, t.idx, t.stale)
    [] t.kind = "autoAdvance" ->
         PCNextStep(Logged(w, Event("autoAdvance", "nextStep", FlowStep(t.step).section,
                                    "none", t.step, t.stale)))
    [] t.kind = "demoStep" -> DemoNextStep(w)
    [] t.kind = "demoNav" -> NavigateToSection(w, t.target)
    [] t.kind = "sceneUnlock" -> [w EXCEPT !.isAnimating = FALSE]

Remove(ts, i) == SubSeq(ts, 1, i - 1) \o SubSeq(ts, i + 1, Len(ts))

Due(ts) == {i \in DOMAIN ts : ts[i].rem = 0}

\* due callbacks run in the order they were registered
FirstDue(ts) == CHOOSE i \in Due(ts) : \A j \in Due(ts) : i <= j

MinRem(ts) == CHOOSE r \in {ts[i].rem : i \in DOMAIN ts} : \A i \in DOMAIN ts : r <= ts[i].rem

Elapse(ts, d) == [i \in DOMAIN ts |-> [ts[i] EXCEPT !.rem = @ - d]]

----------------------------------------------------------------------------
(* Initial state: after ACEPresentation.init has constructed and            *)
(* initialised every component                                              *)

Constructed ==
  /\ aceCurrentSection = "chaos"
  /\ pcCurrentSection = "chaos"
  /\ pcCurrentStep = 0
  /\ presentationState = [isPlaying |-> FALSE, isPaused |-> FALSE,
                          hasStartTime |-> FALSE, currentTime |-> 0]
  /\ sinceStart = 0
  /\ autoAdvance = FALSE
  /\ demoIsRunning = FALSE
  /\ demoIsPaused = FALSE
  /\ demoCurrentStep = 0
  /\ stepTimeout = FALSE
  /\ modalStack = <<>>
  /\ overlayActive = FALSE
  /\ sceneSection = "chaos"
  /\ timers = <<>>
  /\ log = <<>>
  /\ lastCall = [op |-> "init", arg |-> "none"]
  /\ calls = 0
  /\ fired = 0
  /\ demoEverStarted = FALSE
  /\ isAnimating = FALSE
  /\ demoMode = FALSE
  /\ animator = [animationQueue |-> <<>>, isAnimating |-> FALSE, activeAnimations |-> {},
                 queued |-> 0, started |-> <<>>]

\* the page that loads the simple scene
Init ==
  /\ Constructed
  /\ sceneImpl = "simple"
  /\ fault = NoFault

\* the page that loads the animated scene
InitAnimated ==
  /\ Constructed
  /\ sceneImpl = "animated"
  /\ fault = NoFault

\* the page with one defect
InitFault ==
  /\ Constructed
  /\ sceneImpl = "simple"
  /\ fault \in Faults

\* a handler invoked from outside (a click, a key, the hosting page) returns
\* with the world w
Returned(op, arg, w) ==
  /\ Commit(w)
  /\ lastCall' = [op |-> op, arg |-> arg]
  /\ calls' = calls + 1
  /\ UNCHANGED fired

----------------------------------------------------------------------------
(* Actions *)

NavigateTo(s) ==
  /\ calls < MaxCalls
  /\ Returned("navigateToSection", s, NavigateToSection(World, s))
  /\ UNCHANGED demoEverStarted

Next_Section ==
  /\ calls < MaxCalls
  /\ Returned("nextSection", "none", NextSection(World))
  /\ UNCHANGED demoEverStarted

Previous_Section ==
  /\ calls < MaxCalls
  /\ Returned("previousSection", "none", PreviousSection(World))
  /\ UNCHANGED demoEverStarted

NextStep ==
  /\ calls < MaxCalls
  /\ Returned("nextStep", "none", PCNextStep(World))
  /\ UNCHANGED demoEverStarted

PreviousStep ==
  /\ calls < MaxCalls
  /\ Returned("previousStep", "none", PCPreviousStep(World))
  /\ UNCHANGED demoEverStarted

GotoStep(i) ==
  /\ calls < MaxCalls
  /\ Returned("gotoStep", ToString(i), PCGotoStep(World, i))
  /\ UNCHANGED demoEverStarted

Play ==
  /\ calls < MaxCalls
  /\ Returned("play", "none", PCPlay(World))
  /\ UNCHANGED demoEverStarted

Pause ==
  /\ calls < MaxCalls
  /\ Returned("pause", "none", PCPause(World))
  /\ UNCHANGED demoEverStarted

Stop ==
  /\ calls < MaxCalls
  /\ Returned("stop", "none", PCStop(World))
  /\ UNCHANGED demoEverStarted

Reset ==
  /\ calls < MaxCalls
  /\ Returned("reset", "none", PCReset(World))
  /\ UNCHANGED demoEverStarted

Demo_Start ==
  /\ calls < MaxCalls
  /\ Returned("demo.start", "none", DemoStart(World))
  /\ demoEverStarted' = TRUE

Demo_Stop ==
  /\ calls < MaxCalls
  /\ Returned("demo.stop", "none", DemoStop(World))
  /\ UNCHANGED demoEverStarted

Demo_Pause ==
  /\ calls < MaxCalls
  /\ Returned("demo.pause", "none", DemoPause(World))
  /\ UNCHANGED demoEverStarted

Demo_Resume ==
  /\ calls < MaxCalls
  /\ Returned("demo.resume", "none", DemoResume(World))
  /\ UNCHANGED demoEverStarted

Demo_SkipToStep(i) ==
  /\ calls < MaxCalls
  /\ Returned("demo.skipToStep", ToString(i), DemoSkipToStep(World, i))
  /\ UNCHANGED demoEverStarted

VisibilityChange(hidden) ==
  /\ calls < MaxCalls
  /\ Returned("visibilitychange", IF hidden THEN "hidden" ELSE "visible",
              HandleVisibilityChange(World, hidden))
  /\ UNCHANGED demoEverStarted

\* the timer service runs the next due callback
FireTimer ==
  /\ Due(timers) # {}
  /\ LET i == FirstDue(timers)
         t == timers[i]
         w == Callback([World EXCEPT !.timers = Remove(@, i)], t)
     IN  /\ Commit(w)
         /\ lastCall' = [op |-> "timer", arg |-> t.kind]
  /\ fired' = IF fired < MaxFired THEN fired + 1 ELSE fired
  /\ UNCHANGED <<calls, demoEverStarted>>

\* time passes until the next deadline
Advance ==
  /\ timers # <<>>
  /\ Due(timers) = {}
  /\ timers' = Elapse(timers, MinRem(timers))
  /\ sinceStart' = IF presentationState.hasStartTime
                   THEN sinceStart + MinRem(timers) ELSE sinceStart
  /\ log' = <<>>
  /\ lastCall' = [op |-> "advance", arg |-> "none"]
  /\ UNCHANGED <<aceCurrentSection, pcCurrentSection, pcCurrentStep, presentationState,
                 autoAdvance, demoIsRunning, demoIsPaused, demoCurrentStep, stepTimeout,
                 modalStack, overlayActive, sceneSection, sceneImpl, isAnimating, demoMode,
                 animator, fault,
                 calls, fired, demoEverStarted>>

\* the stretch of time in which outside handlers interleave with the timers
EarlyFireTimer ==
  /\ fired < MaxFired
  /\ FireTimer

EarlyAdvance ==
  /\ fired < MaxFired
  /\ Advance

Next ==
  \/ \E s \in Sections : NavigateTo(s)
  \/ Next_Section
  \/ Previous_Section
  \/ NextStep
  \/ PreviousStep
  \/ \E i \in -1..Len(flowSteps) : GotoStep(i)
  \/ Play
  \/ Pause
  \/ Stop
  \/ Reset
  \/ Demo_Start
  \/ Demo_Stop
  \/ Demo_Pause
  \/ Demo_Resume
  \/ \E i \in SkipTargets : Demo_SkipToStep(i)
  \/ \E hidden \in BOOLEAN : VisibilityChange(hidden)
  \/ EarlyFireTimer
  \/ EarlyAdvance

Spec == Init /\ [][Next]_vars

\* Playback left to itself: play() and section clicks, then every timer runs,
\* however late
PlayOnly ==
  /\ calls < MaxCalls - 1
  /\ Play

ClickSection(s) ==
  /\ calls < MaxCalls - 1
  /\ NavigateTo(s)

NextPlay ==
  \/ PlayOnly
  \/ \E s \in Sections : ClickSection(s)
  \/ FireTimer
  \/ Advance

SpecPlay == Init /\ [][NextPlay]_vars

\* The demo left to itself: the section may be changed before the demo is
\* started; from then on only the timer service runs, and it does run
SectionBeforeDemo(s) ==
  /\ ~demoEverStarted
  /\ NavigateTo(s)

StartDemoOnce ==
  /\ ~demoEverStarted
  /\ Demo_Start

NextDemo ==
  \/ \E s \in Sections : SectionBeforeDemo(s)
  \/ StartDemoOnce
  \/ FireTimer
  \/ Advance

SpecDemo == Init /\ [][NextDemo]_vars /\ WF_vars(FireTimer) /\ WF_vars(Advance)

\* Playback left to itself: the section may be changed before play() is called
\* for the first time; from then on only the timer service runs, and it does
\* run
SectionBeforePlay(s) ==
  /\ ~presentationState.hasStartTime
  /\ NavigateTo(s)

PlayOnce ==
  /\ ~presentationState.hasStartTime
  /\ Play

NextAuto ==
  \/ \E s \in Sections : SectionBeforePlay(s)
  \/ PlayOnce
  \/ FireTimer
  \/ Advance

SpecAuto == Init /\ [][NextAuto]_vars /\ WF_vars(FireTimer) /\ WF_vars(Advance)

\* Navigation on the page with the animated scene: section clicks, and the
\* timer service, which does run
SceneClick(s) ==
  /\ calls < MaxCalls
  /\ NavigateTo(s)

NextScene ==
  \/ \E s \in Sections : SceneClick(s)
  \/ FireTimer
  \/ Advance

SpecScene == InitAnimated /\ [][NextScene]_vars /\ WF_vars(FireTimer) /\ WF_vars(Advance)

\* the arguments of a direct request to the scene: the five sections and an
\* id the switch does not know
SceneArgs == Sections \cup {"unknown"}

\* threeScene.transitionToSection(s), a public method of the scene
Scene_TransitionToSection(s) ==
  /\ calls < MaxCalls
  /\ Returned("scene.transitionToSection", s, SceneTransitionToSection(World, s))
  /\ UNCHANGED demoEverStarted

\* The page with the animated scene, its scene also asked directly
NextLock ==
  \/ \E s \in Sections : SceneClick(s)
  \/ \E s \in SceneArgs : Scene_TransitionToSection(s)
  \/ FireTimer
  \/ Advance

SpecLock == InitAnimated /\ [][NextLock]_vars /\ WF_vars(FireTimer) /\ WF_vars(Advance)

\* animationController.queueAnimation(element, t)
Queue_Animation(t) ==
  /\ calls < MaxCalls
  /\ Returned("queueAnimation", t, QueueAnimation(World, t))
  /\ UNCHANGED demoEverStarted

\* animationend, or the fallback timeout, of an active animation that ends;
\* whichever of the two comes second finds the entry gone
AnimationEnd ==
  \E e \in animator.activeAnimations :
    /\ e.animationType \notin InfinitePresets
    /\ Commit(CompleteAnimation(World, e))
    /\ lastCall' = [op |-> "animationend", arg |-> ToString(e.id)]
    /\ UNCHANGED <<calls, fired, demoEverStarted>>

\* The animation queue: entries are queued and animations end
NextQueue ==
  \/ \E t \in AnimationTypes : Queue_Animation(t)
  \/ AnimationEnd

SpecQueue == Init /\ [][NextQueue]_vars

\* The demo button and the indicator of the demo: the button toggles demo
\* mode, the Stop button of the indicator is on screen while the demo runs
Toggle_DemoMode ==
  /\ calls < MaxCalls
  /\ Returned("toggleDemoMode", "none", ToggleDemoMode(World))
  /\ demoEverStarted' = (demoEverStarted \/ ~demoMode)

ClickDemoStop ==
  /\ demoIsRunning
  /\ Demo_Stop

NextToggle ==
  \/ Toggle_DemoMode
  \/ ClickDemoStop
  \/ FireTimer
  \/ Advance

SpecToggle == Init /\ [][NextToggle]_vars

\* The page with one defect: navigation, play(), the demo and the timers
NextFault ==
  \/ \E s \in {"chaos", "valet", "manager"} : NavigateTo(s)
  \/ Play
  \/ Demo_Start
  \/ EarlyFireTimer
  \/ EarlyAdvance

SpecFault == InitFault /\ [][NextFault]_vars

----------------------------------------------------------------------------
(* Properties *)

LogHas(ev) == \E i \in DOMAIN log : log[i].ev = ev

\* C1: once a navigation has left a section, none of the delayed actions that
\* the abandoned run of that section registered executes afterwards.
C1_NoAbandonedActionRuns ==
  \A i \in DOMAIN log : log[i].ev = "flowAction" => ~log[i].stale

\* C2: the auto-advance timer of a run whose section has been left never
\* triggers a navigation.
C2_NoAbandonedAutoAdvance ==
  (\E i \in DOMAIN log : log[i].ev = "autoAdvance" /\ log[i].stale) => ~LogHas("signal")

\* C3: currentStep is a valid index and the flow step it names is the section
\* both controllers hold as current.
C3_IndexSectionCoherence ==
  /\ pcCurrentStep \in 0..(Len(flowSteps) - 1)
  /\ FlowStep(pcCurrentStep).section = pcCurrentSection
  /\ pcCurrentSection = aceCurrentSection

C3_Witness ==
  /\ lastCall.op = "timer"
  /\ lastCall.arg = "demoNav"
  /\ aceCurrentSection = "valet"
  /\ pcCurrentStep = 1

\* C4: once the demo has been started and is left alone, it eventually is not
\* running any more with the presentation on the first section.
C4_DemoSelfTerminates ==
  demoEverStarted ~> (~demoIsRunning /\ aceCurrentSection = "chaos")

\* C5: resume (called directly or by the visibility handler) does not execute
\* a step action; it only re-creates the timer leading to the next step.
C5_ResumeDoesNotRerunAction ==
  (\/ lastCall.op = "demo.resume"
   \/ (lastCall.op = "visibilitychange" /\ lastCall.arg = "visible"))
  => ~LogHas("demoAction")

\* C6: navigateToSection with the current section as target changes nothing:
\* no field, no signal, no scene call, no new run, no timer.
C6_NavigateToCurrentIsNoOp ==
  [][(lastCall'.op = "navigateToSection" /\ lastCall'.arg = aceCurrentSection)
     => /\ log' = <<>>
        /\ UNCHANGED <<aceCurrentSection, pcCurrentSection, pcCurrentStep,
                       presentationState, autoAdvance, sceneSection, timers,
                       demoIsRunning, demoIsPaused, demoCurrentStep, stepTimeout,
                       modalStack, overlayActive>>]_vars

C6_Witness ==
  /\ lastCall = [op |-> "navigateToSection", arg |-> "valet"]
  /\ aceCurrentSection = "valet"
  /\ log = <<>>
  /\ timers # <<>>

Successor ==
  [chaos |-> "valet", valet |-> "manager", manager |-> "executive",
   executive |-> "closing", closing |-> "chaos"]

Predecessor ==
  [chaos |-> "closing", valet |-> "chaos", manager |-> "valet",
   executive |-> "manager", closing |-> "executive"]

\* C7: nextSection moves to the successor and previousSection to the
\* predecessor in the cyclic order of the five sections; five nextSection
\* calls in a row return to the section they started from.
C7_CyclicNavigation ==
  [][/\ lastCall'.op = "nextSection" => aceCurrentSection' = Successor[aceCurrentSection]
     /\ lastCall'.op = "previousSection" => aceCurrentSection' = Predecessor[aceCurrentSection]
     /\ NextSection(NextSection(NextSection(NextSection(NextSection(World))))).aceSection
          = aceCurrentSection]_vars

C7_Witness ==
  /\ lastCall.op = "nextSection"
  /\ aceCurrentSection = "chaos"
  /\ LogHas("signal")

\* C8: the signal of a navigation from s to target carries previousSection = s
\* and the new section = target.
C8_SignalCarriesPreviousSection ==
  [][lastCall'.op = "navigateToSection"
     => \A i \in DOMAIN log' :
          log'[i].ev = "signal"
          => log'[i].prev = aceCurrentSection /\ log'[i].sec = lastCall'.arg]_vars

\* C9: after DemoController.stop() the presentation is on the first section
\* and no dialog is open.
C9_StopReturnsToFirstSection ==
  lastCall.op = "demo.stop"
  => aceCurrentSection = "chaos" /\ modalStack = <<>> /\ ~overlayActive

\* C10: after DemoController.stop() the driver is idle, no step timer is
\* pending and currentStep is 0.
C10_StopResetsRunState ==
  lastCall.op = "demo.stop"
  => /\ ~demoIsRunning
     /\ ~demoIsPaused
     /\ ~stepTimeout
     /\ \A i \in DOMAIN timers : timers[i].kind # "demoStep"
     /\ demoCurrentStep = 0

\* the pending timers the demo driver or one of its step actions registered
DemoTimers == {i \in DOMAIN timers : timers[i].kind \in {"demoStep", "demoNav"}}

\* the pending step timers
StepTimers == {i \in DOMAIN timers : timers[i].kind = "demoStep"}

\* the step actions the last handler executed
StepActionsRun == {i \in DOMAIN log : log[i].ev = "demoAction"}

\* C11: after DemoController.start() the driver is running, not paused, at
\* step 0; this call executed the action of step 0 exactly once; and the only
\* pending timer of the demo is one step timer set to step 0's post-delay
\* (every timer of a previous run is gone).
C11_StartPostState ==
  lastCall.op = "demo.start"
  => /\ demoIsRunning
     /\ ~demoIsPaused
     /\ demoCurrentStep = 0
     /\ Cardinality(StepActionsRun) = 1
     /\ \A i \in StepActionsRun : log[i].idx = 0
     /\ Cardinality(DemoTimers) = 1
     /\ \A i \in DemoTimers :
          timers[i].kind = "demoStep" /\ timers[i].owned /\ timers[i].rem = demoDurations[1]

\* every field of the program and the timer queue
ProgramVars ==
  <<aceCurrentSection, pcCurrentSection, pcCurrentStep, presentationState, sinceStart,
    autoAdvance, demoIsRunning, demoIsPaused, demoCurrentStep, stepTimeout,
    modalStack, overlayActive, sceneSection, sceneImpl, isAnimating, demoMode, timers>>

\* the fields outside the demo driver
NonDemoVars ==
  <<aceCurrentSection, pcCurrentSection, pcCurrentStep, presentationState, sinceStart,
    autoAdvance, modalStack, overlayActive, sceneSection, sceneImpl, isAnimating, demoMode>>

WithoutStepTimers(ts) == SelectSeq(ts, LAMBDA t : t.kind # "demoStep")

\* C12: pause() on a driver that is not running changes nothing; on a running
\* driver it sets isPaused, removes the pending step timer and changes nothing
\* else (currentStep and isRunning in particular); and while the driver is
\* paused no step action executes unless resume(), start() or skipToStep is
\* called.
C12_PauseFrame ==
  [][/\ (lastCall'.op = "demo.pause" /\ ~demoIsRunning)
          => (UNCHANGED ProgramVars /\ log' = <<>>)
     /\ (lastCall'.op = "demo.pause" /\ demoIsRunning)
          => /\ demoIsPaused'
             /\ ~stepTimeout'
             /\ timers' = WithoutStepTimers(timers)
             /\ Cardinality(StepTimers) <= 1
             /\ log' = <<>>
             /\ UNCHANGED <<demoCurrentStep, demoIsRunning>>
             /\ UNCHANGED NonDemoVars
     /\ (/\ demoIsPaused
         /\ lastCall'.op \notin {"demo.resume", "demo.start", "demo.skipToStep"}
         /\ lastCall' # [op |-> "visibilitychange", arg |-> "visible"])
          => StepActionsRun' = {}]_vars

\* a timer registered by a step action fires while the driver is paused
C12_Witness ==
  /\ lastCall = [op |-> "timer", arg |-> "demoNav"]
  /\ demoIsRunning
  /\ demoIsPaused
  /\ StepTimers = {}
  /\ aceCurrentSection = "valet"

\* C13: from every state, pause() called twice in a row leaves the same state
\* (isRunning, isPaused, currentStep, timers, every other field) and the same
\* executed actions as pause() called once.
C13_PauseIdempotent ==
  [][/\ DemoPause(DemoPause(World)) = DemoPause(World)
     /\ (lastCall.op = "demo.pause" /\ lastCall'.op = "demo.pause")
          => (UNCHANGED ProgramVars /\ log' = <<>>)]_vars

\* a running driver has been paused, with other timers still pending, and a
\* further pause() would change nothing
C13_Witness ==
  /\ lastCall.op = "demo.pause"
  /\ demoIsRunning
  /\ demoIsPaused
  /\ timers # <<>>
  /\ DemoPause(World) = World

\* C14: resume() on a driver that is not paused (idle, or running and not
\* paused) changes no field, executes no step action and creates no timer.
C14_ResumeNotPausedIsNoOp ==
  [][(lastCall'.op = "demo.resume" /\ ~demoIsPaused)
     => (UNCHANGED ProgramVars /\ log' = <<>>)]_vars

\* resume() has returned on a running, unpaused driver whose step timer is
\* already due: the timer is still the same one
C14_Witness ==
  /\ lastCall.op = "demo.resume"
  /\ demoIsRunning
  /\ ~demoIsPaused
  /\ log = <<>>
  /\ \E i \in StepTimers : timers[i].rem = 0

\* C15: when resume() is called on a demo paused at step k, the only step
\* timer pending afterwards carries step k's full post-delay (k is the step
\* the driver was paused at), so the next step begins that long after the
\* resume call and no earlier; and a step timer runs only when its delay has
\* elapsed.
C15_ResumeRestartsFullDelay ==
  [][/\ ((\/ lastCall'.op = "demo.resume"
          \/ lastCall' = [op |-> "visibilitychange", arg |-> "visible"])
         /\ demoIsRunning /\ demoIsPaused)
          => /\ Cardinality(StepTimers') = 1
             /\ \A i \in StepTimers' : timers'[i].rem = demoDurations[demoCurrentStep + 1]
     /\ (lastCall' = [op |-> "timer", arg |-> "demoStep"])
          => (\E i \in StepTimers : timers[i].rem = 0)]_vars

\* the demo was paused at step 2 once 500 ms of its post-delay had passed (the
\* deferred navigation is due), and resume() has set the step timer to the
\* full 4000 ms again
C15_Witness ==
  /\ lastCall.op = "demo.resume"
  /\ demoIsRunning
  /\ ~demoIsPaused
  /\ demoCurrentStep = 2
  /\ \E i \in DOMAIN timers : timers[i].kind = "demoNav" /\ timers[i].rem = 0
  /\ \E i \in StepTimers : timers[i].rem = demoDurations[3]

\* the auto-advance timers of live runs of flow step k
AutoAdvanceTimers(k) ==
  {i \in DOMAIN timers :
     timers[i].kind = "autoAdvance" /\ timers[i].step = k /\ ~timers[i].stale}

\* C16: after play() returns from a stopped or paused presentation, isPlaying
\* is true, isPaused is false, auto-advance is enabled, and a run of the
\* current step has been started whose auto-advance timer is pending with the
\* step's duration; play() after pause() is one such case.
C16_PlayStartsPlayback ==
  [][(lastCall'.op = "play"
      /\ (~presentationState.isPlaying \/ presentationState.isPaused))
     => /\ presentationState'.isPlaying
        /\ ~presentationState'.isPaused
        /\ autoAdvance'
        /\ \E i \in DOMAIN log' : log'[i].ev = "run" /\ log'[i].idx = pcCurrentStep'
        /\ \E i \in AutoAdvanceTimers(pcCurrentStep)' :
             timers'[i].rem = FlowStep(pcCurrentStep').duration]_vars

\* C17: while auto-advance is disabled (pause() or stop() was called and
\* play() has not been called since), an auto-advance timer that fires does
\* not change the current section and emits no signal.
C17_DisabledAutoAdvanceDoesNotNavigate ==
  [][(~autoAdvance /\ lastCall' = [op |-> "timer", arg |-> "autoAdvance"])
     => /\ aceCurrentSection' = aceCurrentSection
        /\ pcCurrentStep' = pcCurrentStep
        /\ \A i \in DOMAIN log' : log'[i].ev # "signal"]_vars

\* C18: stop() sets isPlaying = false, isPaused = false and currentTime = 0,
\* disables auto-advance and leaves the current section and currentStep as
\* they were; pause() leaves the current section and currentStep as they were.
C18_StopPauseKeepPosition ==
  [][/\ lastCall'.op = "stop"
          => /\ ~presentationState'.isPlaying
             /\ ~presentationState'.isPaused
             /\ presentationState'.currentTime = 0
             /\ ~autoAdvance'
             /\ UNCHANGED <<aceCurrentSection, pcCurrentSection, pcCurrentStep, sceneSection>>
     /\ lastCall'.op = "pause"
          => UNCHANGED <<aceCurrentSection, pcCurrentSection, pcCurrentStep, sceneSection>>]_vars

\* stop() has returned on valet, which was entered some time after play() had
\* been called on chaos (so the elapsed time was not 0 before the call)
C18_Witness ==
  /\ lastCall.op = "stop"
  /\ aceCurrentSection = "valet"
  /\ pcCurrentStep = 1
  /\ presentationState.currentTime = 0
  /\ sinceStart > 0
  /\ \E i \in DOMAIN timers :
       /\ timers[i].kind = "autoAdvance"
       /\ timers[i].stale
       /\ timers[i].rem < FlowStep(0).duration
  /\ \E i \in DOMAIN timers :
       /\ timers[i].kind = "flowAction"
       /\ timers[i].step = 1
       /\ timers[i].rem = FlowStep(1).actions[timers[i].idx].delay

\* C19: after reset() returns, both controllers hold the first section (chaos)
\* as current, currentStep is 0, isPlaying and isPaused are false and
\* auto-advance is disabled.
C19_ResetPostState ==
  lastCall.op = "reset"
  => /\ aceCurrentSection = FlowStep(0).section
     /\ pcCurrentSection = FlowStep(0).section
     /\ FlowStep(0).section = "chaos"
     /\ pcCurrentStep = 0
     /\ ~presentationState.isPlaying
     /\ ~presentationState.isPaused
     /\ ~autoAdvance

\* reset() was called while playing on another section and has navigated back
C19_Witness ==
  /\ lastCall.op = "reset"
  /\ LogHas("signal")
  /\ presentationState.hasStartTime
  /\ \E i \in DOMAIN timers : timers[i].kind = "autoAdvance" /\ timers[i].step # 0

\* C20: after reset() returns, presentationState.currentTime is 0, also when
\* play() had been called before and reset() navigates back from another
\* section.
C20_ResetClearsElapsedTime ==
  lastCall.op = "reset" => presentationState.currentTime = 0

\* C21: after play() as the only input, called on the first section, isPlaying
\* eventually becomes false (once the auto-advance timers of all steps have
\* fired and closing's duration has elapsed).
C21_PlaybackEnds ==
  (lastCall.op = "play" /\ calls = 1 /\ aceCurrentSection = "chaos")
    ~> ~presentationState.isPlaying

LastStep == Len(flowSteps) - 1

\* C22: an auto-advance timer that fires while the last step (closing) is
\* current leaves the current section and currentStep as they are and emits
\* no signal; no auto-advance ever leads from closing to another section.
C22_NoOvershoot ==
  [][(lastCall' = [op |-> "timer", arg |-> "autoAdvance"] /\ pcCurrentStep = LastStep)
     => /\ aceCurrentSection = FlowStep(LastStep).section
        /\ UNCHANGED <<aceCurrentSection, pcCurrentSection, pcCurrentStep, sceneSection>>
        /\ \A i \in DOMAIN log' : log'[i].ev # "signal"]_vars

\* the auto-advance timer of closing's own run has fired on closing
C22_Witness ==
  /\ lastCall = [op |-> "timer", arg |-> "autoAdvance"]
  /\ \E i \in DOMAIN log : log[i].ev = "autoAdvance" /\ log[i].idx = LastStep /\ ~log[i].stale
  /\ aceCurrentSection = "closing"
  /\ pcCurrentStep = LastStep
  /\ presentationState.isPlaying

\* the arguments of gotoStep that name a flow step
ValidStepArgs == {ToString(i) : i \in 0..LastStep}

\* C23: gotoStep(i) with i outside [0, flowSteps.length), nextStep() at the
\* last step and previousStep() at step 0 change no field (current section,
\* currentStep, presentation state), register no timer and emit no signal.
C23_InvalidTransitionAbsorbed ==
  [][(\/ (lastCall'.op = "gotoStep" /\ lastCall'.arg \notin ValidStepArgs)
      \/ (lastCall'.op = "nextStep" /\ pcCurrentStep = LastStep)
      \/ (lastCall'.op = "previousStep" /\ pcCurrentStep = 0))
     => (UNCHANGED ProgramVars /\ log' = <<>>)]_vars

\* nextStep() has returned on the last step, with closing's run still pending
C23_Witness ==
  /\ lastCall.op = "nextStep"
  /\ pcCurrentStep = LastStep
  /\ aceCurrentSection = "closing"
  /\ log = <<>>
  /\ timers # <<>>

\* C24: when a navigateToSection call that changes the current section
\* returns, the scene's currentSection is the presentation's current section,
\* also when the call comes while an earlier scene transition is in progress.
C24_SceneSynchronized ==
  [][(lastCall'.op = "navigateToSection" /\ aceCurrentSection' # aceCurrentSection)
     => sceneSection' = aceCurrentSection']_vars

\* the pending timers registered by flow step runs
FlowTimers == {i \in DOMAIN timers : timers[i].kind \in {"flowAction", "autoAdvance"}}

\* C25: all pending scheduled-action and auto-advance timers belong to a
\* single run: none is left over from a run whose section has been left, all
\* are of the same flow step, and no action of that step (nor its
\* auto-advance) is pending twice.
C25_SingleRunPending ==
  \A i, j \in FlowTimers :
    /\ ~timers[i].stale
    /\ timers[i].step = timers[j].step
    /\ (timers[i].kind = timers[j].kind /\ timers[i].idx = timers[j].idx) => i = j

\* C26: while the demo driver is stopped or paused, no callback that a demo
\* step registered changes the current section; the deferred navigations of
\* the two 'Close modal and transition' steps are such callbacks.
C26_DemoTimersRevoked ==
  [][(/\ lastCall'.op = "timer"
      /\ lastCall'.arg \in {"demoStep", "demoNav"}
      /\ (~demoIsRunning \/ demoIsPaused))
     => aceCurrentSection' = aceCurrentSection]_vars

\* the call of executeAction on the defective action, as the log of the last
\* handler records it
DefectiveCalls ==
  {n \in DOMAIN log :
     /\ log[n].ev = "flowAction"
     /\ log[n].idx = fault.idx
     /\ log[n].sec = FlowStep(fault.step).section}

\* action j of flowSteps[k] has been executed by the last handler, or its
\* timer is pending for the run whose timers carry the mark `stale`
ExecutedOrScheduled(k, j, stale) ==
  \/ \E n \in DOMAIN log :
       log[n].ev = "flowAction" /\ log[n].idx = j /\ log[n].sec = FlowStep(k).section
  \/ \E i \in DOMAIN timers :
       /\ timers[i].kind = "flowAction"
       /\ timers[i].step = k
       /\ timers[i].idx = j
       /\ timers[i].stale = stale

\* C27: when the effect of an action of a flow step throws, the actions that
\* follow it in the list of the same run are still executed or scheduled, and
\* the run's auto-advance timer exists when auto-advance is enabled.
C27_ThrowDoesNotAbortRun ==
  \A n \in DefectiveCalls :
    fault.kind = "throws" =>
      /\ \A j \in (fault.idx + 1)..Len(FlowStep(fault.step).actions) :
           ExecutedOrScheduled(fault.step, j, log[n].stale)
      /\ (autoAdvance /\ FlowStep(fault.step).actions[fault.idx].delay = 0)
           => AutoAdvanceTimers(fault.step) # {}

\* every field of the program, the timer queue left out
FieldVars ==
  <<aceCurrentSection, pcCurrentSection, pcCurrentStep, presentationState, sinceStart,
    autoAdvance, demoIsRunning, demoIsPaused, demoCurrentStep, stepTimeout,
    modalStack, overlayActive, sceneSection, sceneImpl, isAnimating, demoMode>>

\* the handler or callback that has just returned reached the default branch
\* of executeAction
UnknownActionMet == \E n \in DOMAIN log : log[n].ev = "warn"

\* C28: executeAction on an action whose type is outside the registry raises
\* no exception and changes no state (run from its timer, only that timer
\* leaves the queue), and the actions that follow it in the same run are still
\* executed or pending.
C28_UnknownActionSkipped ==
  [][UnknownActionMet' =>
       /\ ~LogHas("uncaught")'
       /\ lastCall'.arg = "flowAction" =>
            /\ FieldVars' = FieldVars
            /\ \E i \in DOMAIN timers :
                 /\ timers[i].kind = "flowAction"
                 /\ timers[i].step = fault.step
                 /\ timers[i].idx = fault.idx
                 /\ timers' = Remove(timers, i)
       /\ lastCall'.arg # "flowAction" =>
            \A j \in (fault.idx + 1)..Len(FlowStep(fault.step).actions) :
              ExecutedOrScheduled(fault.step, j, FALSE)']_vars

\* an unknown delayed action has just been skipped and a later action of the
\* same run is still pending
C28_Witness ==
  /\ UnknownActionMet
  /\ lastCall.arg = "flowAction"
  /\ \E i \in DOMAIN timers :
       /\ timers[i].kind = "flowAction"
       /\ timers[i].step = fault.step
       /\ timers[i].idx > fault.idx

\* the action of a demo step has thrown in the handler or callback that has
\* just returned
DemoActionThrew == \E n \in DOMAIN log : log[n].ev = "demoError"

\* C29: when the action of a demo step throws, the error does not leave
\* executeStep, the driver is still running at the index of that step, and
\* the step timer has been created with the post-delay of that step.
C29_DemoErrorAbsorbed ==
  DemoActionThrew =>
    /\ ~LogHas("uncaught")
    /\ demoIsRunning
    /\ ~demoIsPaused
    /\ demoCurrentStep = fault.step
    /\ stepTimeout
    /\ timers # <<>>
    /\ timers[Len(timers)].kind = "demoStep"
    /\ timers[Len(timers)].owned
    /\ timers[Len(timers)].rem = demoDurations[fault.step + 1]

\* the action of demo step 1 has thrown after the step timer of step 0 fired
C29_Witness ==
  /\ DemoActionThrew
  /\ fault.kind = "demoThrows"
  /\ lastCall = [op |-> "timer", arg |-> "demoStep"]
  /\ demoCurrentStep = 1

\* action j of flowSteps[k] is executed in the given log after position n
ExecutedAfter(lg, n, k, j) ==
  \E m \in DOMAIN lg :
    m > n /\ lg[m].ev = "flowAction" /\ lg[m].idx = j /\ lg[m].sec = FlowStep(k).section

\* the delay of the action a pending flow timer stands for
DelayOf(t) == FlowStep(t.step).actions[t.idx].delay

\* the time since the run that registered the pending flow timer t started
SinceRunStart(t) == DelayOf(t) - t.rem

\* C30: the actions of one flow step run execute in non-decreasing order of
\* their delay: the handler that starts a run executes exactly the actions
\* without delay and registers each delayed one with its delay, and when a
\* delayed action executes, no pending action of the same run has a smaller
\* delay.
C30_ActionsInDelayOrder ==
  [][/\ \A n \in DOMAIN log' :
          log'[n].ev = "run" =>
            \A j \in DOMAIN FlowStep(log'[n].idx).actions :
              LET k == log'[n].idx
                  delay == FlowStep(k).actions[j].delay
              IN  IF delay = 0
                  THEN ExecutedAfter(log', n, k, j)
                  ELSE /\ ~ExecutedAfter(log', n, k, j)
                       /\ \E i \in DOMAIN timers' :
                            /\ timers'[i].kind = "flowAction"
                            /\ timers'[i].step = k
                            /\ timers'[i].idx = j
                            /\ timers'[i].rem = delay
     /\ lastCall' = [op |-> "timer", arg |-> "flowAction"] =>
          LET t == timers[FirstDue(timers)]
          IN  \A i \in DOMAIN timers :
                (/\ timers[i].kind = "flowAction"
                 /\ timers[i].step = t.step
                 /\ SinceRunStart(timers[i]) = SinceRunStart(t))
                  => DelayOf(timers[i]) >= DelayOf(t)]_vars

\* a delayed action of the valet run has just executed while a later action of
\* the same run is pending
C30_Witness ==
  /\ lastCall = [op |-> "timer", arg |-> "flowAction"]
  /\ \E n \in DOMAIN log : log[n].ev = "flowAction" /\ log[n].idx = 3 /\ log[n].sec = "valet"
  /\ \E i \in DOMAIN timers :
       /\ timers[i].kind = "flowAction"
       /\ timers[i].step = 1
       /\ timers[i].idx = 4
       /\ SinceRunStart(timers[i]) = FlowStep(1).actions[3].delay

\* C31: between pause() and the next play(), presentationState.currentTime
\* does not increase, whatever navigation happens in between.
C31_PauseHaltsElapsedTime ==
  [][(presentationState.isPaused /\ lastCall'.op # "play")
     => presentationState'.currentTime <= presentationState.currentTime]_vars

\* the pending step timers, in registration order
StepTimerQueue(ts) == SelectSeq(ts, LAMBDA t : t.kind = "demoStep")

\* the calls a presenter makes by hand on the presentation
ManualCalls == {"navigateToSection", "play", "pause", "stop", "reset"}

\* C32: navigateToSection, play, pause, stop and reset called while the demo
\* is running or paused leave isRunning, isPaused, currentStep and the pending
\* step timer of the demo driver as they were.
C32_ManualNavigationKeepsDemo ==
  [][(lastCall'.op \in ManualCalls /\ demoIsRunning)
     => /\ UNCHANGED <<demoIsRunning, demoIsPaused, demoCurrentStep, stepTimeout>>
        /\ StepTimerQueue(timers') = StepTimerQueue(timers)]_vars

\* a section was chosen by hand while the demo was running; the step timer of
\* the demo is still pending
C32_Witness ==
  /\ lastCall = [op |-> "navigateToSection", arg |-> "manager"]
  /\ LogHas("signal")
  /\ demoIsRunning
  /\ ~demoIsPaused
  /\ \E i \in StepTimers : timers[i].owned

\* C33: over every sequence of start, stop, pause, resume, skipToStep calls
\* and timer firings, isPaused implies isRunning, at most one step timer is
\* pending, and a step timer is pending only while the driver is running and
\* not paused.
C33_DemoStateInvariant ==
  /\ demoIsPaused => demoIsRunning
  /\ Cardinality(StepTimers) <= 1
  /\ StepTimers # {} => (demoIsRunning /\ ~demoIsPaused)

\* skipToStep on a running driver has replaced the step timer
C33_Witness ==
  /\ lastCall = [op |-> "demo.skipToStep", arg |-> "2"]
  /\ demoIsRunning
  /\ ~demoIsPaused
  /\ demoCurrentStep = 2
  /\ Cardinality(StepTimers) = 1
  /\ \E i \in DOMAIN timers : timers[i].kind = "demoNav"

\* C34: after any sequence of toggleDemoMode calls, clicks on the Stop button
\* of the demo indicator and demo timer firings, ACEPresentation.demoMode
\* equals DemoController.isRunning.
C34_DemoModeAgreesWithDriver == demoMode = demoIsRunning

\* the events of kind ev that the last transition produced
LogCount(ev) == Cardinality({i \in DOMAIN log : log[i].ev = ev})

\* C35: one navigateToSection call to a section other than the current one
\* emits exactly one sectionChanged event and starts exactly one Flow Step
\* run, although handleSectionChange and the immediate showSection action
\* call navigateToSection again.
C35_NavigationLoopTerminates ==
  [][(lastCall'.op = "navigateToSection" /\ lastCall'.arg # aceCurrentSection)
     => /\ LogCount("signal")' = 1
        /\ LogCount("run")' = 1
        /\ aceCurrentSection' = lastCall'.arg]_vars

\* a navigation to manager has dispatched its event, started the run of
\* manager, and the run's immediate showSection action has been executed
C35_Witness ==
  /\ lastCall = [op |-> "navigateToSection", arg |-> "manager"]
  /\ LogCount("signal") = 1
  /\ LogCount("run") = 1
  /\ \E i \in DOMAIN log : log[i].ev = "flowAction" /\ log[i].name = "showSection"
                            /\ log[i].sec = "manager"

\* play() has been the only call
PlayedAlone == calls = 1 /\ presentationState.hasStartTime

\* the durations of the steps before step k, added up
RECURSIVE DurationBefore(_)
DurationBefore(k) == IF k = 0 THEN 0 ELSE DurationBefore(k - 1) + FlowStep(k - 1).duration

\* C36: after play() from chaos as the only input, with every timer firing,
\* the presentation visits valet, manager, executive and closing in that
\* order, each entered only when the durations of all previous steps have
\* elapsed, and eventually stays on closing.  Every change of section goes to
\* the next section of the order, so reaching closing from chaos visits the
\* three sections between them.
C36_AutoPlayProgress ==
  /\ [][(PlayedAlone /\ aceCurrentSection' # aceCurrentSection)
        => /\ IndexOf(aceCurrentSection') = IndexOf(aceCurrentSection) + 1
           /\ pcCurrentStep' = IndexOf(aceCurrentSection')
           /\ sinceStart' = DurationBefore(IndexOf(aceCurrentSection'))]_vars
  /\ PlayedAlone ~> [](aceCurrentSection = "closing")

\* playback has reached closing when the 360000 ms of the four steps before
\* it have elapsed, by the auto-advance timer of executive
C36_Witness ==
  /\ PlayedAlone
  /\ lastCall = [op |-> "timer", arg |-> "autoAdvance"]
  /\ aceCurrentSection = "closing"
  /\ pcCurrentStep = LastStep
  /\ sinceStart = 360000
  /\ LogCount("run") = 1

\* the pending timers that clear isAnimating
UnlockTimers == {i \in DOMAIN timers : timers[i].kind = "sceneUnlock"}

\* C37: in the animated scene every transitionToSection call that sets
\* isAnimating, whatever its sectionId, is eventually followed by isAnimating
\* being false, and at most one section transition is in progress at a time.
C37_SceneLockReleased ==
  /\ [](Cardinality(UnlockTimers) <= 1)
  /\ isAnimating ~> ~isAnimating

\* what skipToStep(i) has to have done on a driver that is running and not
\* paused
SkippedTo(i) ==
  /\ demoCurrentStep' = i
  /\ LogCount("demoAction")' = 1
  /\ \E n \in DOMAIN log' : log'[n].ev = "demoAction" /\ log'[n].idx = i
  /\ stepTimeout'
  /\ Cardinality({n \in DOMAIN timers' : timers'[n].kind = "demoStep"}) = 1
  /\ timers'[Len(timers')] = [Timer("demoStep", demoDurations[i + 1], 0, 0, "none")
                                EXCEPT !.owned = TRUE]

\* C38: skipToStep(i) changes nothing when the driver is not running or i is
\* outside 0..length-1; on a running driver that is not paused it cancels the
\* pending step timer, sets currentStep to i, executes the action of step i
\* once and leaves exactly one step timer pending; on a paused driver it only
\* sets currentStep to i, with no action executed and no timer created.
C38_SkipToStepEffect ==
  [][\A i \in SkipTargets :
       lastCall' = [op |-> "demo.skipToStep", arg |-> ToString(i)] =>
         IF ~demoIsRunning \/ i < 0 \/ i >= DemoLength
         THEN UNCHANGED ProgramVars
         ELSE IF demoIsPaused
         THEN /\ demoCurrentStep' = i
              /\ LogCount("demoAction")' = 0
              /\ UNCHANGED <<NonDemoVars, demoIsRunning, demoIsPaused, stepTimeout, timers>>
         ELSE SkippedTo(i)]_vars

\* C39: over every sequence of queueAnimation calls and animation
\* completions, at most one queued animation is in progress at any moment, no
\* queued entry is started twice, and entries start in the order in which
\* they were queued.
C39_QueueRunsOneAtATime ==
  /\ Cardinality(animator.activeAnimations) <= 1
  /\ \A i, j \in DOMAIN animator.started :
        i < j => animator.started[i] < animator.started[j]


====
